---- MODULE Spec2Model ----
(***************************************************************************)
(* A model of the YARP lexer (ext/yarp/yarp.c): the parser structure, the  *)
(* lex-mode stack and yp_lex_token with every scanner it calls.            *)
(*                                                                         *)
(* Bytes are one-character strings; the three control bytes the lexer      *)
(* tests (NUL, ^D, ^Z) have names.  A pointer into the source buffer is    *)
(* its offset from parser->start, so parser->start is 0 and parser->end is *)
(* the size of the buffer.  The lexer functions thread one record, the     *)
(* parser structure plus the value the C function returns (.type, .ok) and *)
(* what the call has observed (.rdlo, .rdhi, .mode, .corrupt).             *)
(***************************************************************************)
EXTENDS Integers, Sequences, FiniteSets, TLC

VARIABLES
    source,   \* the bytes of the buffer, source[1..size]
    tail,     \* the bytes that lie in memory after the sentinel buf[size]
    parser,   \* the yp_parser_t under test
    twin,     \* a second, independent yp_parser_t on the same buffer
    pc,       \* "init" after yp_parser_init, "lexed" after a call, "fault"
    tokens,   \* the tokens the calls have produced so far, oldest first
    seen      \* what the calls have observed (offsets read, mode switched on)

vars == <<source, tail, parser, twin, pc, tokens, seen>>

----------------------------------------------------------------------------
(* Bounds of the model. *)

\* every buffer over Alphabet of at most this length is an input
MaxLen == 2
\* bytes of memory mapped after the NUL sentinel; a read beyond them faults
Pad == 1
\* the token history stops growing at this length (the calls go on)
MaxTokens == 13

----------------------------------------------------------------------------
(* Bytes *)

NUL == "<NUL>"
CTRL_D == "<^D>"
CTRL_Z == "<^Z>"
VTAB == "<VT>"
\* the grave accent, which a TLA+ string cannot hold
BACKTICK == "<grave>"
\* the outcome of reading memory that is not mapped
UNMAPPED == "<unmapped>"

LowerAF == {"a", "b", "c", "d", "e", "f"}
UpperAF == {"A", "B", "C", "D", "E", "F"}
LowerAZ == LowerAF \cup {"g", "h", "i", "j", "k", "l", "m", "n", "o", "p", "q",
                         "r", "s", "t", "u", "v", "w", "x", "y", "z"}
UpperAZ == UpperAF \cup {"G", "H", "I", "J", "K", "L", "M", "N", "O", "P", "Q",
                         "R", "S", "T", "U", "V", "W", "X", "Y", "Z"}
Digits01 == {"0", "1"}
Digits07 == Digits01 \cup {"2", "3", "4", "5", "6", "7"}
Digits09 == Digits07 \cup {"8", "9"}
HexDigits == Digits09 \cup LowerAF \cup UpperAF

is_binary_number_char(c) == c \in Digits01

is_octal_number_char(c) == c \in Digits07

is_decimal_number_char(c) == c \in Digits09

is_hexadecimal_number_char(c) == c \in HexDigits

is_identifier_start_char(c) == c \in LowerAZ \/ c \in UpperAZ \/ c = "_"

is_identifier_char(c) == is_identifier_start_char(c) \/ is_decimal_number_char(c)

IdentifierChars == {c \in LowerAZ \cup UpperAZ \cup {"_"} \cup Digits09 : is_identifier_char(c)}

is_non_newline_whitespace_char(c) == c \in {" ", "\t", "\f", "\r", VTAB}

is_whitespace_char(c) == is_non_newline_whitespace_char(c) \/ c = "\n"

----------------------------------------------------------------------------
(* Memory: the buffer, the sentinel and what lies around them. *)

\* parser->end - parser->start
Size == Len(source)

\* The byte at an offset from parser->start.  buf[Size] is the NUL sentinel.
\* The byte before the buffer is whatever the call finds there (p.before);
\* the Pad bytes after the sentinel are the tail; nothing is mapped beyond
\* them (the call that reads there faults, see Faulted).
Byte(p, i) ==
    IF i < 0 THEN p.before
    ELSE IF i < Size THEN source[i + 1]
    ELSE IF i = Size THEN NUL
    ELSE IF i <= Size + Pad THEN tail[i - Size]
    ELSE NUL

\* *(parser->current.end + k)
peek(p, k) == Byte(p, p.current.end + k)

\* records that the call has read the byte at parser->current.end + k
note(p, k) == [p EXCEPT !.reads = @ \cup {p.current.end + k}]

\* parser->current.end += k
advance(p, k) == [p EXCEPT !.current.end = @ + k]

\* the function returns this token type
return(p, type) == [p EXCEPT !.type = type]

\* parser->current.start[0 .. end - start)
Lexeme(p) ==
    [i \in 1..(p.current.end - p.current.start) |->
        Byte(p, p.current.start + i - 1)]

match(p, value) ==
    IF peek(p, 0) = value
    THEN [advance(note(p, 0), 1) EXCEPT !.ok = TRUE]
    ELSE [note(p, 0) EXCEPT !.ok = FALSE]

\* match(parser, first) || match(parser, second)
match_or(p, first, second) ==
    LET or(m) == IF m.ok THEN m ELSE match(m, second) IN or(match(p, first))

terminator(start) ==
    CASE start = "(" -> ")"
      [] start = "[" -> "]"
      [] start = "{" -> "}"
      [] start = "<" -> ">"
      [] OTHER -> start

----------------------------------------------------------------------------
(* Lex modes and the lex-mode stack. *)

YP_LEX_STACK_SIZE == 4

Modes == {"DEFAULT", "EMBDOC", "EMBEXPR", "LIST", "REGEXP", "STRING", "SYMBOL"}

StackPtr(i) == [kind |-> "stack", at |-> i]
HeapPtr(k) == [kind |-> "heap", at |-> k]
\* a pointer read from memory that was never written
WildPtr == [kind |-> "wild", at |-> 0]
NullPtr == [kind |-> "null", at |-> 0]

\* (yp_lex_mode_t) { .mode = mode, .term = term, .interp = interp }: the
\* members a compound literal does not name are zero.
LexMode(mode, term, interp) ==
    [mode |-> mode, term |-> term, interp |-> interp, prev |-> NullPtr]

\* The values an uninitialised yp_lex_mode_t can hold.  The lexer reads term
\* in the list, regexp and string modes only and interp in the string mode
\* only; where a member is not read one value stands for all.
GarbageTerms == {NUL, "\""}
\* a value of the mode member that names no mode
NO_MODE == "<no mode>"
Garbage ==
    {g \in [mode : Modes \cup {NO_MODE}, term : GarbageTerms, interp : BOOLEAN] :
        /\ g.mode \notin {"LIST", "REGEXP", "STRING"} => g.term = NUL
        /\ g.mode # "STRING" => ~g.interp}
Uninitialised(g) ==
    [mode |-> g.mode, term |-> g.term, interp |-> g.interp, prev |-> WildPtr]
ZeroGarbage == [mode |-> "DEFAULT", term |-> NUL, interp |-> FALSE]

\* *parser->lex_modes.current.  Through a wild pointer the call reads
\* whatever lies there (p.behind).
Top(p) ==
    LET ptr == p.lex_modes.current IN
    CASE ptr.kind = "stack" -> p.lex_modes.stack[ptr.at]
      [] ptr.kind = "heap" -> p.heap[ptr.at].node
      [] OTHER -> Uninitialised(p.behind)

\* push_lex_mode leaving the index as it is
push_lex_mode_uncounted(p, lex_mode) ==
    LET linked == [lex_mode EXCEPT !.prev = p.lex_modes.current]
        index == p.lex_modes.index + 1
    IN  IF index > YP_LEX_STACK_SIZE - 1
        THEN [p EXCEPT !.heap = Append(@, [node |-> Uninitialised(p.fresh),
                                           live |-> TRUE]),
                       !.lex_modes.current = HeapPtr(Len(p.heap) + 1),
                       !.used = @ \cup {"fresh"}]
        ELSE [p EXCEPT !.lex_modes.stack[index] = linked,
                       !.lex_modes.current = StackPtr(index)]

\* push_lex_mode storing the mode in the slot it leaves
push_lex_mode_in_place(p, lex_mode) ==
    LET linked == [lex_mode EXCEPT !.prev = p.lex_modes.current]
        index == p.lex_modes.index + 1
    IN  IF index > YP_LEX_STACK_SIZE - 1
        THEN [p EXCEPT !.lex_modes.index = index,
                       !.heap = Append(@, [node |-> Uninitialised(p.fresh),
                                           live |-> TRUE]),
                       !.lex_modes.current = HeapPtr(Len(p.heap) + 1),
                       !.used = @ \cup {"fresh"}]
        ELSE [p EXCEPT !.lex_modes.index = index,
                       !.lex_modes.stack[index - 1] = linked,
                       !.lex_modes.current = StackPtr(index)]

push_lex_mode(p, lex_mode) ==
    LET linked == [lex_mode EXCEPT !.prev = p.lex_modes.current]
        index == p.lex_modes.index + 1
    IN  IF index > YP_LEX_STACK_SIZE - 1
        THEN \* malloc; the node is never written
             [p EXCEPT !.lex_modes.index = index,
                       !.heap = Append(@, [node |-> Uninitialised(p.fresh),
                                           live |-> TRUE]),
                       !.lex_modes.current = HeapPtr(Len(p.heap) + 1),
                       !.used = @ \cup {"fresh"}]
        ELSE [p EXCEPT !.lex_modes.index = index,
                       !.lex_modes.stack[index] = linked,
                       !.lex_modes.current = StackPtr(index)]

\* free(ptr): a pointer malloc did not return, or returned and already
\* freed, is recorded in .corrupt
free(p, ptr) ==
    IF ptr.kind = "heap" /\ p.heap[ptr.at].live
    THEN [p EXCEPT !.heap[ptr.at].live = FALSE]
    ELSE [p EXCEPT !.corrupt = TRUE]

\* pop_lex_mode going back to the base of the stack
pop_lex_mode_to_base(p) ==
    [p EXCEPT !.lex_modes.index = 0, !.lex_modes.current = StackPtr(0)]

pop_lex_mode(p) ==
    LET ptr == p.lex_modes.current IN
    IF p.lex_modes.index = 0
    THEN CASE ptr.kind = "stack" ->
                [p EXCEPT !.lex_modes.stack[ptr.at].mode = "DEFAULT"]
           [] ptr.kind = "heap" ->
                [p EXCEPT !.heap[ptr.at].node.mode = "DEFAULT"]
           [] OTHER -> [p EXCEPT !.corrupt = TRUE]
    ELSE IF p.lex_modes.index < YP_LEX_STACK_SIZE
    THEN [p EXCEPT !.lex_modes.index = @ - 1,
                   !.lex_modes.current = StackPtr(p.lex_modes.index - 1)]
    ELSE LET prev == Top(p).prev IN
         IF prev.kind = "wild"
         THEN \* the memory the new pointer leads to is p.wild
              [free(p, ptr) EXCEPT !.lex_modes.index = @ - 1,
                                   !.lex_modes.current = prev,
                                   !.behind = p.wild,
                                   !.used = @ \cup {"wild"}]
         ELSE [free(p, ptr) EXCEPT !.lex_modes.index = @ - 1,
                                   !.lex_modes.current = prev]

----------------------------------------------------------------------------
(* Specific token lexers.  Each takes the record and gives the record back *)
(* with the cursor moved and .type set to the value the C function returns.*)

\* while (is_<base>_number_char(end)) { end++; match(parser, '_'); }
RECURSIVE lex_digit_run(_, _)
lex_digit_run(p, digits) ==
    IF peek(p, 0) \in digits
    THEN lex_digit_run(match(advance(note(p, 0), 1), "_"), digits)
    ELSE note(p, 0)

\* the exponent portion of lex_optional_float_suffix; type is the local
\* variable of that function on entry to it
lex_optional_exponent(p, type) ==
    LET digits(sign) ==
            IF is_decimal_number_char(peek(sign, 0))
            THEN return(lex_digit_run(advance(note(sign, 0), 1), Digits09), "FLOAT")
            ELSE return(note(sign, 0), "INVALID")
        exponent(eE) ==
            IF eE.ok THEN digits(match_or(eE, "+", "-")) ELSE return(eE, type)
    IN  exponent(match_or(p, "e", "E"))

\* lex_optional_float_suffix taking the point that no digit follows into
\* the token
lex_optional_float_suffix_eating_point(p) ==
    IF peek(p, 0) = "."
    THEN IF p.current.end + 1 < Size /\ is_decimal_number_char(peek(p, 1))
         THEN lex_optional_exponent(
                  lex_digit_run(advance(note(note(p, 0), 1), 2), Digits09), "FLOAT")
         ELSE return(IF p.current.end + 1 < Size
                     THEN advance(note(note(p, 0), 1), 1)
                     ELSE note(p, 0), "INTEGER")
    ELSE lex_optional_exponent(note(p, 0), "INTEGER")

lex_optional_float_suffix(p) ==
    IF peek(p, 0) = "."
    THEN IF p.current.end + 1 < Size /\ is_decimal_number_char(peek(p, 1))
         THEN lex_optional_exponent(
                  lex_digit_run(advance(note(note(p, 0), 1), 2), Digits09), "FLOAT")
         ELSE return(IF p.current.end + 1 < Size THEN note(note(p, 0), 1)
                     ELSE note(p, 0), "INTEGER")
    ELSE lex_optional_exponent(note(p, 0), "INTEGER")

\* if (!is_<base>_number_char(++end)) return INVALID; then the digit run.
\* .ok = FALSE marks the early return.
lex_based_digits(p, digits) ==
    LET q == advance(note(p, 0), 1) IN
    IF peek(q, 0) \in digits
    THEN [return(lex_digit_run(q, digits), "INTEGER") EXCEPT !.ok = TRUE]
    ELSE [return(note(q, 0), "INVALID") EXCEPT !.ok = FALSE]

lex_numeric_prefix(p) ==
    LET scanned(c, q) ==
            IF peek(p, -1) = "0"
            THEN CASE c \in {"d", "D"} -> lex_based_digits(q, Digits09)
                   [] c \in {"b", "B"} -> lex_based_digits(q, Digits01)
                   [] c \in {"o", "O"} -> lex_based_digits(q, Digits07)
                   [] c \in Digits07 ->
                        [return(lex_digit_run(q, Digits07), "INTEGER") EXCEPT !.ok = TRUE]
                   [] c \in {"x", "X"} -> lex_based_digits(q, HexDigits)
                   [] c \in {".", "e", "E"} ->
                        [lex_optional_float_suffix(q) EXCEPT !.ok = TRUE]
                   [] OTHER -> [return(q, "INTEGER") EXCEPT !.ok = TRUE]
            ELSE [lex_optional_float_suffix(
                      lex_digit_run(note(p, -1), Digits09)) EXCEPT !.ok = TRUE]
        \* if (parser->current.end[-1] == '_') return YP_TOKEN_INVALID;
        checked(s) ==
            IF ~s.ok THEN s
            ELSE IF peek(s, -1) = "_" THEN return(note(s, -1), "INVALID")
            ELSE note(s, -1)
    IN  checked(scanned(peek(p, 0), note(note(p, -1), 0)))

\* lex_numeric with the r suffix consumed and the type left as it was
lex_numeric_untyped(p) ==
    LET imaginary(i) == IF i.ok THEN return(i, "IMAGINARY_NUMBER") ELSE i
        rational(r) == imaginary(match(r, "i"))
        suffixed(prefix) ==
            IF prefix.type # "INVALID" THEN rational(match(prefix, "r"))
            ELSE prefix
    IN  suffixed(lex_numeric_prefix(p))

lex_numeric(p) ==
    LET imaginary(i) == IF i.ok THEN return(i, "IMAGINARY_NUMBER") ELSE i
        rational(r) ==
            imaginary(match(IF r.ok THEN return(r, "RATIONAL_NUMBER") ELSE r, "i"))
        suffixed(prefix) ==
            IF prefix.type # "INVALID" THEN rational(match(prefix, "r"))
            ELSE prefix
    IN  suffixed(lex_numeric_prefix(p))

\* do { end++; } while (is_..._char(end));
RECURSIVE lex_char_run(_, _)
lex_char_run(p, chars) ==
    LET q == advance(p, 1) IN
    IF peek(q, 0) \in chars THEN lex_char_run(note(q, 0), chars) ELSE note(q, 0)

lex_global_variable(p) ==
    LET c == peek(p, 0)
        q == note(p, 0)
    IN  CASE c \in {"~", "*", "$", "?", "!", "@", "/", "\\", ";", ",", ".",
                    "=", ":", "<", ">", "\""} ->
                return(advance(q, 1), "GLOBAL_VARIABLE")
          [] c \in {"&", BACKTICK, "'", "+"} ->
                return(advance(q, 1), "BACK_REFERENCE")
          [] c \in {"1", "2", "3", "4", "5", "6", "7", "8", "9"} ->
                return(lex_char_run(q, Digits09), "NTH_REFERENCE")
          [] OTHER ->
                IF is_identifier_char(c)
                THEN return(lex_char_run(q, IdentifierChars), "GLOBAL_VARIABLE")
                ELSE return(q, "INVALID")

\* The KEYWORD(value, size, token) lines that follow the suffix test, in
\* the order of the source.
Keywords == <<
    [value |-> <<"_", "_", "E", "N", "C", "O", "D", "I", "N", "G", "_", "_">>, token |-> "KEYWORD___ENCODING__"],
    [value |-> <<"_", "_", "L", "I", "N", "E", "_", "_">>, token |-> "KEYWORD___LINE__"],
    [value |-> <<"_", "_", "F", "I", "L", "E", "_", "_">>, token |-> "KEYWORD___FILE__"],
    [value |-> <<"a", "l", "i", "a", "s">>, token |-> "KEYWORD_ALIAS"],
    [value |-> <<"a", "n", "d">>, token |-> "KEYWORD_AND"],
    [value |-> <<"b", "e", "g", "i", "n">>, token |-> "KEYWORD_BEGIN"],
    [value |-> <<"B", "E", "G", "I", "N">>, token |-> "KEYWORD_BEGIN_UPCASE"],
    [value |-> <<"b", "r", "e", "a", "k">>, token |-> "KEYWORD_BREAK"],
    [value |-> <<"c", "a", "s", "e">>, token |-> "KEYWORD_CASE"],
    [value |-> <<"c", "l", "a", "s", "s">>, token |-> "KEYWORD_CLASS"],
    [value |-> <<"d", "e", "f">>, token |-> "KEYWORD_DEF"],
    [value |-> <<"d", "o">>, token |-> "KEYWORD_DO"],
    [value |-> <<"e", "l", "s", "e">>, token |-> "KEYWORD_ELSE"],
    [value |-> <<"e", "l", "s", "i", "f">>, token |-> "KEYWORD_ELSIF"],
    [value |-> <<"e", "n", "d">>, token |-> "KEYWORD_END"],
    [value |-> <<"E", "N", "D">>, token |-> "KEYWORD_END_UPCASE"],
    [value |-> <<"e", "n", "s", "u", "r", "e">>, token |-> "KEYWORD_ENSURE"],
    [value |-> <<"f", "a", "l", "s", "e">>, token |-> "KEYWORD_FALSE"],
    [value |-> <<"f", "o", "r">>, token |-> "KEYWORD_FOR"],
    [value |-> <<"i", "f">>, token |-> "KEYWORD_IF"],
    [value |-> <<"i", "n">>, token |-> "KEYWORD_IN"],
    [value |-> <<"m", "o", "d", "u", "l", "e">>, token |-> "KEYWORD_MODULE"],
    [value |-> <<"n", "e", "x", "t">>, token |-> "KEYWORD_NEXT"],
    [value |-> <<"n", "i", "l">>, token |-> "KEYWORD_NIL"],
    [value |-> <<"n", "o", "t">>, token |-> "KEYWORD_NOT"],
    [value |-> <<"o", "r">>, token |-> "KEYWORD_OR"],
    [value |-> <<"r", "e", "d", "o">>, token |-> "KEYWORD_REDO"],
    [value |-> <<"r", "e", "s", "c", "u", "e">>, token |-> "KEYWORD_RESCUE"],
    [value |-> <<"r", "e", "t", "r", "y">>, token |-> "KEYWORD_RETRY"],
    [value |-> <<"r", "e", "t", "u", "r", "n">>, token |-> "KEYWORD_RETURN"],
    [value |-> <<"s", "e", "l", "f">>, token |-> "KEYWORD_SELF"],
    [value |-> <<"s", "u", "p", "e", "r">>, token |-> "KEYWORD_SUPER"],
    [value |-> <<"t", "h", "e", "n">>, token |-> "KEYWORD_THEN"],
    [value |-> <<"t", "r", "u", "e">>, token |-> "KEYWORD_TRUE"],
    [value |-> <<"u", "n", "d", "e", "f">>, token |-> "KEYWORD_UNDEF"],
    [value |-> <<"u", "n", "l", "e", "s", "s">>, token |-> "KEYWORD_UNLESS"],
    [value |-> <<"u", "n", "t", "i", "l">>, token |-> "KEYWORD_UNTIL"],
    [value |-> <<"w", "h", "e", "n">>, token |-> "KEYWORD_WHEN"],
    [value |-> <<"w", "h", "i", "l", "e">>, token |-> "KEYWORD_WHILE"],
    [value |-> <<"y", "i", "e", "l", "d">>, token |-> "KEYWORD_YIELD"]
>>

\* the chain of KEYWORD macros: the token of the first line whose value is
\* the lexeme, "" when the chain falls through
keyword_of(lexeme) ==
    LET hits == {k \in 1..Len(Keywords) : Keywords[k].value = lexeme} IN
    IF hits = {} THEN ""
    ELSE Keywords[CHOOSE k \in hits : \A j \in hits : k <= j].token

\* while (is_identifier_char(end)) end++;
RECURSIVE lex_identifier_run(_)
lex_identifier_run(p) ==
    IF is_identifier_char(peek(p, 0))
    THEN lex_identifier_run(advance(note(p, 0), 1))
    ELSE note(p, 0)

lex_identifier(p) ==
    LET \* (end + 1 < parser->end) && (end[1] != '=') && (match('!') || match('?'))
        suffixed(run) ==
            IF run.current.end + 1 < Size
            THEN IF peek(run, 1) # "=" THEN match_or(note(run, 1), "!", "?")
                 ELSE [note(run, 1) EXCEPT !.ok = FALSE]
            ELSE [run EXCEPT !.ok = FALSE]
        typed(suffix) ==
            IF suffix.ok
            THEN IF suffix.previous.type # "DOT"
                    /\ Lexeme(suffix) = <<"d", "e", "f", "i", "n", "e", "d", "?">>
                 THEN return(suffix, "KEYWORD_DEFINED")
                 ELSE return(suffix, "IDENTIFIER")
            ELSE IF suffix.previous.type # "DOT" /\ keyword_of(Lexeme(suffix)) # ""
            THEN return(suffix, keyword_of(Lexeme(suffix)))
            ELSE IF Byte(suffix, suffix.current.start) \in UpperAZ
            THEN return(suffix, "CONSTANT")
            ELSE return(suffix, "IDENTIFIER")
    IN  typed(suffixed(lex_identifier_run(p)))

----------------------------------------------------------------------------
(* lex_token_type: the dispatcher of each lex mode. *)

\* return match(parser, value) ? yes : no;
either(p, value, yes, no) ==
    LET m == match(p, value) IN return(m, IF m.ok THEN yes ELSE no)

\* operator_method taking the @ after whatever token came before
operator_method_anywhere(p, at, plain) == either(p, "@", at, plain)

\* if ((previous.type == KEYWORD_DEF || previous.type == DOT) && match('@'))
\*   return at; return plain;
operator_method(p, at, plain) ==
    IF p.previous.type \in {"KEYWORD_DEF", "DOT"}
    THEN either(p, "@", at, plain)
    ELSE return(p, plain)

\* strncmp(parser->current.end, str, Len(str)) == 0, comparing from the
\* k-th byte on: bytes are read up to the first that differs
RECURSIVE strncmp_is_0(_, _, _)
strncmp_is_0(p, str, k) ==
    IF k > Len(str) THEN [p EXCEPT !.ok = TRUE]
    ELSE IF peek(p, k - 1) = str[k] THEN strncmp_is_0(note(p, k - 1), str, k + 1)
    ELSE [note(p, k - 1) EXCEPT !.ok = FALSE]

\* the default error handlers of each_token
unrecoverable(p) == return(p, "EOF")

\* while (is_non_newline_whitespace_char(end)) end++;
RECURSIVE skip_whitespace(_)
skip_whitespace(p) ==
    IF is_non_newline_whitespace_char(peek(p, 0))
    THEN skip_whitespace(advance(note(p, 0), 1))
    ELSE note(p, 0)

\* while (*end != '\n' && *end != '\0') end++;
RECURSIVE lex_comment_run(_)
lex_comment_run(p) ==
    IF peek(p, 0) # "\n" /\ peek(p, 0) # NUL
    THEN lex_comment_run(advance(note(p, 0), 1))
    ELSE note(p, 0)

\* case '%': the switch on the byte after the percent sign
lex_percent(p) ==
    LET c == peek(p, 0)
        q == note(p, 0)
        \* end++; push_lex_mode(parser, { mode, terminator(*end++), interp })
        open(mode, interp, type) ==
            LET letter == advance(q, 1)
                delim == advance(note(letter, 0), 1)
            IN  return(push_lex_mode(delim,
                           LexMode(mode, terminator(peek(letter, 0)), interp)), type)
    IN  CASE c = "=" -> return(advance(q, 1), "PERCENT_EQUAL")
          [] c = "i" -> open("LIST", FALSE, "PERCENT_LOWER_I")
          [] c = "I" -> open("LIST", TRUE, "PERCENT_UPPER_I")
          [] c = "r" -> open("REGEXP", TRUE, "REGEXP_BEGIN")
          [] c = "q" -> open("STRING", FALSE, "STRING_BEGIN")
          [] c = "Q" -> open("STRING", TRUE, "STRING_BEGIN")
          [] c = "w" -> open("LIST", FALSE, "PERCENT_LOWER_W")
          [] c = "W" -> open("LIST", TRUE, "PERCENT_UPPER_W")
          [] c = "x" -> open("STRING", TRUE, "PERCENT_LOWER_X")
          [] OTHER -> return(q, "PERCENT")

\* switch (*parser->current.end++) of YP_LEX_DEFAULT and YP_LEX_EMBEXPR: c is
\* the byte and p the parser past it
lex_default_switch(c, p) ==
        CASE c \in {NUL, CTRL_D, CTRL_Z} -> return(p, "EOF")
          [] c = "#" -> return(match(lex_comment_run(p), "\n"), "COMMENT")
          [] c = "\n" -> return([p EXCEPT !.lineno = @ + 1], "NEWLINE")
          [] c = "," -> return(p, "COMMA")
          [] c = "(" -> return(p, "PARENTHESIS_LEFT")
          [] c = ")" -> return(p, "PARENTHESIS_RIGHT")
          [] c = ";" -> return(p, "SEMICOLON")
          [] c = "[" ->
                IF p.previous.type = "DOT"
                THEN either(p, "]", "BRACKET_LEFT_RIGHT", "BRACKET_LEFT")
                ELSE return(p, "BRACKET_LEFT")
          [] c = "]" -> return(p, "BRACKET_RIGHT")
          [] c = "{" ->
                IF p.previous.type = "MINUS_GREATER"
                THEN return(p, "LAMBDA_BEGIN")
                ELSE return(p, "BRACE_LEFT")
          [] c = "}" ->
                IF Top(p).mode = "EMBEXPR"
                THEN return(pop_lex_mode(p), "EMBEXPR_END")
                ELSE return(p, "BRACE_RIGHT")
          [] c = "*" ->
                LET m == match(p, "*") IN
                IF m.ok THEN either(m, "=", "STAR_STAR_EQUAL", "STAR_STAR")
                ELSE either(m, "=", "STAR_EQUAL", "STAR")
          [] c = "!" ->
                LET eq == match(p, "=")
                    tilde == match(eq, "~")
                IN  IF eq.ok THEN return(eq, "BANG_EQUAL")
                    ELSE IF tilde.ok THEN return(tilde, "BANG_TILDE")
                    ELSE operator_method(tilde, "BANG_AT", "BANG")
          [] c = "=" ->
                LET behind == note(p, -2)
                    begin == IF peek(p, -2) = "\n"
                             THEN strncmp_is_0(behind, <<"b", "e", "g", "i", "n", "\n">>, 1)
                             ELSE [behind EXCEPT !.ok = FALSE]
                    gt == match(begin, ">")
                    tilde == match(gt, "~")
                    eq == match(tilde, "=")
                IN  IF begin.ok
                    THEN return(push_lex_mode(advance(begin, 6),
                                    LexMode("EMBDOC", NUL, FALSE)), "EMBDOC_BEGIN")
                    ELSE IF gt.ok THEN return(gt, "EQUAL_GREATER")
                    ELSE IF tilde.ok THEN return(tilde, "EQUAL_TILDE")
                    ELSE IF eq.ok THEN either(eq, "=", "EQUAL_EQUAL_EQUAL", "EQUAL_EQUAL")
                    ELSE return(eq, "EQUAL")
          [] c = "<" ->
                LET lt == match(p, "<")
                    lteq == match(lt, "=")
                    minus == match(lteq, "-")
                    heredoc == IF minus.ok THEN minus ELSE match(minus, "~")
                IN  IF lt.ok
                    THEN IF lteq.ok THEN return(lteq, "LESS_LESS_EQUAL")
                         ELSE IF heredoc.ok THEN return(heredoc, "EOF")
                         ELSE return(heredoc, "LESS_LESS")
                    ELSE IF lteq.ok
                    THEN either(lteq, ">", "LESS_EQUAL_GREATER", "LESS_EQUAL")
                    ELSE return(lteq, "LESS")
          [] c = ">" ->
                LET m == match(p, ">") IN
                IF m.ok THEN either(m, "=", "GREATER_GREATER_EQUAL", "GREATER_GREATER")
                ELSE either(m, "=", "GREATER_EQUAL", "GREATER")
          [] c = "\"" ->
                return(push_lex_mode(p, LexMode("STRING", "\"", TRUE)), "STRING_BEGIN")
          [] c = BACKTICK ->
                return(push_lex_mode(p, LexMode("STRING", BACKTICK, TRUE)), "BACKTICK")
          [] c = "'" ->
                return(push_lex_mode(p, LexMode("STRING", "'", FALSE)), "STRING_BEGIN")
          [] c = "?" ->
                IF is_identifier_char(peek(p, 0))
                THEN return(advance(note(p, 0), 1), "CHARACTER_LITERAL")
                ELSE return(note(p, 0), "QUESTION_MARK")
          [] c = "&" ->
                LET m == match(p, "&") IN
                IF m.ok
                THEN either(m, "=", "AMPERSAND_AMPERSAND_EQUAL", "AMPERSAND_AMPERSAND")
                ELSE either(m, "=", "AMPERSAND_EQUAL", "AMPERSAND")
          [] c = "|" ->
                LET m == match(p, "|") IN
                IF m.ok THEN either(m, "=", "PIPE_PIPE_EQUAL", "PIPE_PIPE")
                ELSE either(m, "=", "PIPE_EQUAL", "PIPE")
          [] c = "+" ->
                LET eq == match(p, "=") IN
                IF eq.ok THEN return(eq, "PLUS_EQUAL")
                ELSE operator_method(eq, "PLUS_AT", "PLUS")
          [] c = "-" ->
                LET gt == match(p, ">")
                    eq == match(gt, "=")
                IN  IF gt.ok THEN return(gt, "MINUS_GREATER")
                    ELSE IF eq.ok THEN return(eq, "MINUS_EQUAL")
                    ELSE operator_method(eq, "MINUS_AT", "MINUS")
          [] c = "." ->
                LET m == match(p, ".") IN
                IF ~m.ok THEN return(m, "DOT")
                ELSE either(m, ".", "DOT_DOT_DOT", "DOT_DOT")
          [] c \in Digits09 -> lex_numeric(p)
          [] c = ":" ->
                LET m == match(p, ":") IN
                IF m.ok THEN return(m, "COLON_COLON")
                ELSE IF is_identifier_char(peek(m, 0))
                THEN return(push_lex_mode(m, LexMode("SYMBOL", NUL, FALSE)),
                            "SYMBOL_BEGIN")
                ELSE return(m, "COLON")
          [] c = "/" ->
                LET m == match(p, "=") IN
                IF m.ok THEN return(m, "SLASH_EQUAL")
                ELSE IF peek(m, 0) = " " THEN return(m, "SLASH")
                ELSE return(push_lex_mode(m, LexMode("REGEXP", "/", FALSE)),
                            "REGEXP_BEGIN")
          [] c = "^" -> either(p, "=", "CARET_EQUAL", "CARET")
          [] c = "~" -> operator_method(p, "TILDE_AT", "TILDE")
          [] c = "\\" -> return(p, "INVALID")
          [] c = "%" -> lex_percent(p)
          [] c = "$" -> lex_global_variable(p)
          [] c = "@" ->
                LET m == match(p, "@")
                    type == IF m.ok THEN "CLASS_VARIABLE" ELSE "INSTANCE_VARIABLE"
                    n == note(m, 0)
                IN  IF is_identifier_start_char(peek(n, 0))
                    THEN return(lex_char_run(n, IdentifierChars), type)
                    ELSE return(n, "INVALID")
          [] OTHER ->
                IF ~is_identifier_start_char(c)
                THEN return(p, "INVALID")
                ELSE LET \* (end[0] == ':') && (end[1] != ':')
                         labelled(id) ==
                             IF peek(id, 0) = ":" /\ peek(id, 1) # ":"
                             THEN return(advance(note(id, 1), 1), "LABEL")
                             ELSE IF peek(id, 0) = ":" THEN note(id, 1)
                             ELSE id
                     IN  labelled(note(lex_identifier(p), 0))

\* lex_default taking a colon after an identifier for the end of a label
\* whatever byte follows the colon
lex_default_labelling_any_colon(p0) ==
    LET relabelled(r) ==
            IF /\ is_identifier_start_char(Byte(r, r.current.start))
               /\ r.type # "LABEL"
               /\ peek(r, 0) = ":"
            THEN return(advance(r, 1), "LABEL")
            ELSE r
        began(ws) ==
            relabelled(lex_default_switch(peek(ws, 0),
                advance([ws EXCEPT !.current.start = ws.current.end], 1)))
    IN  began(skip_whitespace(p0))

\* case YP_LEX_DEFAULT: case YP_LEX_EMBEXPR: the whitespace is skipped, the
\* token starts, and the switch is on *parser->current.end++
lex_default(p0) ==
    LET began(ws) ==
            lex_default_switch(peek(ws, 0),
                advance([ws EXCEPT !.current.start = ws.current.end], 1))
    IN  began(skip_whitespace(p0))

\* lex_embdoc_line stopping in front of the newline
RECURSIVE lex_embdoc_line_before_newline(_)
lex_embdoc_line_before_newline(p) ==
    IF p.current.end < Size
    THEN IF peek(p, 0) # "\n"
         THEN lex_embdoc_line_before_newline(advance(note(p, 0), 1))
         ELSE note(p, 0)
    ELSE p

\* case YP_LEX_EMBDOC: while ((end < parser->end) && (*end++ != '\n'));
RECURSIVE lex_embdoc_line(_)
lex_embdoc_line(p) ==
    IF p.current.end < Size
    THEN IF peek(p, 0) # "\n"
         THEN lex_embdoc_line(advance(note(p, 0), 1))
         ELSE advance(note(p, 0), 1)
    ELSE p

lex_embdoc(p0) ==
    LET p == [p0 EXCEPT !.current.start = p0.current.end]
        end == strncmp_is_0(p, <<"=", "e", "n", "d", "\n">>, 1)
        line == lex_embdoc_line(end)
    IN  IF end.ok
        THEN return(pop_lex_mode(advance(end, 5)), "EMBDOC_END")
        ELSE IF line.current.end < Size
        THEN return([line EXCEPT !.lineno = @ + 1], "EMBDOC_LINE")
        ELSE unrecoverable(line)

\* do { if (*end == '\n') lineno++; end++; } while (is_whitespace_char(end));
RECURSIVE lex_list_separator(_)
lex_list_separator(p) ==
    LET q == advance([p EXCEPT !.lineno = IF peek(p, 0) = "\n" THEN @ + 1 ELSE @], 1)
    IN  IF is_whitespace_char(peek(q, 0))
        THEN lex_list_separator(note(q, 0))
        ELSE note(q, 0)

\* lex_list_word leaving the list when the terminator ends a word
RECURSIVE lex_list_word_closing_early(_)
lex_list_word_closing_early(p) ==
    IF p.current.end < Size
    THEN IF is_whitespace_char(peek(p, 0))
         THEN return(note(p, 0), "STRING_CONTENT")
         ELSE IF peek(p, 0) = Top(p).term
         THEN return(pop_lex_mode(advance(note(p, 0), 1)), "STRING_END")
         ELSE lex_list_word_closing_early(advance(note(p, 0), 1))
    ELSE unrecoverable(p)

\* the while (end < parser->end) loop of YP_LEX_LIST
RECURSIVE lex_list_word(_)
lex_list_word(p) ==
    IF p.current.end < Size
    THEN IF is_whitespace_char(peek(p, 0))
         THEN return(note(p, 0), "STRING_CONTENT")
         ELSE IF peek(p, 0) = Top(p).term
         THEN IF p.current.start < p.current.end
              THEN return(note(p, 0), "STRING_CONTENT")
              ELSE return(pop_lex_mode(advance(note(p, 0), 1)), "STRING_END")
         ELSE lex_list_word(advance(note(p, 0), 1))
    ELSE unrecoverable(p)

lex_list(p) ==
    IF is_whitespace_char(peek(p, 0))
    THEN return(lex_list_separator(
                    [note(p, 0) EXCEPT !.current.start = p.current.end]), "WORDS_SEP")
    ELSE lex_list_word([note(p, 0) EXCEPT !.current.start = p.current.end])

\* the option letters after the terminator of a regular expression
RECURSIVE lex_regexp_options(_)
lex_regexp_options(p) ==
    IF peek(p, 0) \in {"e", "i", "m", "n", "s", "u", "x"}
    THEN lex_regexp_options(advance(note(p, 0), 1))
    ELSE note(p, 0)

\* The while (end < parser->end) loop of YP_LEX_REGEXP and of YP_LEX_STRING.
\* gated: the '#' test is behind lex_modes.current->interp (YP_LEX_STRING).
RECURSIVE lex_content(_, _)
lex_content(p, gated) ==
    IF p.current.end < Size
    THEN LET c == peek(p, 0)
             q == [note(p, 0) EXCEPT !.lineno = IF c = "\n" THEN @ + 1 ELSE @]
         IN  IF c = Top(p).term
             THEN return(note(p, 0), "STRING_CONTENT")
             ELSE IF (~gated \/ Top(p).interp) /\ c = "#"
             THEN IF peek(p, 1) = "{"
                  THEN IF p.current.end > p.current.start
                       THEN return(note(q, 1), "STRING_CONTENT")
                       ELSE return(push_lex_mode(advance(note(q, 1), 2),
                                       LexMode("EMBEXPR", NUL, FALSE)),
                                   "EMBEXPR_BEGIN")
                  ELSE lex_content(advance(note(q, 1), 1), gated)
             ELSE lex_content(advance(q, 1), gated)
    ELSE unrecoverable(p)

lex_regexp(p0) ==
    LET p == [p0 EXCEPT !.current.start = p0.current.end]
        m == match(p, Top(p).term)
    IN  IF m.ok
        THEN return(pop_lex_mode(lex_regexp_options(m)), "REGEXP_END")
        ELSE lex_content(m, FALSE)

\* lex_string giving the end of the buffer as content
lex_string_without_handler(p0) ==
    LET p == [p0 EXCEPT !.current.start = p0.current.end]
        m == match(p, Top(p).term)
    IN  IF m.ok
        THEN return(pop_lex_mode(m), "STRING_END")
        ELSE IF m.current.end < Size THEN lex_content(m, TRUE)
        ELSE return(m, "STRING_CONTENT")

lex_string(p0) ==
    LET p == [p0 EXCEPT !.current.start = p0.current.end]
        m == match(p, Top(p).term)
    IN  IF m.ok
        THEN return(pop_lex_mode(m), "STRING_END")
        ELSE lex_content(m, TRUE)

\* lex_symbol returning the type of lex_identifier whether or not an equals
\* sign follows
lex_symbol_keeping_kind(p0) ==
    LET p == [p0 EXCEPT !.current.start = p0.current.end] IN
    IF p.current.end < Size
    THEN IF is_identifier_start_char(peek(p, 0))
         THEN LET assigned(id) == either(id, "=", id.type, id.type) IN
              assigned(lex_identifier(pop_lex_mode(advance(note(p, 0), 1))))
         ELSE return(advance(note(p, 0), 1), "INVALID")
    ELSE return(p, "INVALID")

lex_symbol(p0) ==
    LET p == [p0 EXCEPT !.current.start = p0.current.end] IN
    \* end < parser->end && is_identifier_start_char(end++)
    IF p.current.end < Size
    THEN IF is_identifier_start_char(peek(p, 0))
         THEN LET assigned(id) == either(id, "=", "IDENTIFIER", id.type) IN
              assigned(lex_identifier(pop_lex_mode(advance(note(p, 0), 1))))
         ELSE return(advance(note(p, 0), 1), "INVALID")
    ELSE return(p, "INVALID")

lex_token_type(p0) ==
    LET mode == Top(p0).mode
        p == [p0 EXCEPT !.mode = mode]
    IN  CASE mode \in {"DEFAULT", "EMBEXPR"} -> lex_default(p)
          [] mode = "EMBDOC" -> lex_embdoc(p)
          [] mode = "LIST" -> lex_list(p)
          [] mode = "REGEXP" -> lex_regexp(p)
          [] mode = "STRING" -> lex_string(p)
          [] mode = "SYMBOL" -> lex_symbol(p)
          \* a mode that is no member of the enumeration
          [] OTHER -> return(p, "INVALID")

----------------------------------------------------------------------------
(* The parser and the calls on it. *)

\* the offset that stands for the null pointer of a zeroed yp_token_t
NULL_OFFSET == 0 - 1

Token(type, start, end) == [type |-> type, start |-> start, end |-> end]

\* yp_parser_init(parser, source, size, error_handler); .heap is the memory
\* malloc has handed to this parser and .behind the memory a wild
\* lex_modes.current leads to.  Members the initialiser does not name
\* are zero: previous is {YP_TOKEN_EOF, NULL, NULL}, current.type is
\* YP_TOKEN_EOF and the unused stack slots are {YP_LEX_DEFAULT, 0, false}.
yp_parser_init ==
    [lex_modes |-> [index |-> 0,
                    stack |-> [i \in 0..(YP_LEX_STACK_SIZE - 1) |->
                                  LexMode("DEFAULT", NUL, FALSE)],
                    current |-> StackPtr(0)],
     previous |-> Token("EOF", NULL_OFFSET, NULL_OFFSET),
     current |-> Token("EOF", 0, 0),
     lineno |-> 1,
     heap |-> <<>>,
     behind |-> ZeroGarbage]

\* What a call finds in memory it does not own: the byte before the buffer,
\* the contents of the node malloc returns, the contents behind the pointer
\* read from a node that was never written, and whether an access through
\* a bad pointer traps.
BeforeBytes == {"\n", "a", UNMAPPED}

Calm == [before |-> NUL, fresh |-> ZeroGarbage, wild |-> ZeroGarbage,
         trap |-> FALSE]

\* the record the lexer functions thread: the parser, the environment of
\* this call, and nothing returned or observed yet
Enter(p, env) ==
    [lex_modes |-> p.lex_modes, previous |-> p.previous, current |-> p.current,
     lineno |-> p.lineno, heap |-> p.heap, behind |-> p.behind,
     before |-> env.before, fresh |-> env.fresh, wild |-> env.wild,
     type |-> "", ok |-> FALSE, reads |-> {}, mode |-> "", corrupt |-> FALSE,
     used |-> {}]

\* the parser structure of the record
Parser(r) ==
    [lex_modes |-> r.lex_modes, previous |-> r.previous, current |-> r.current,
     lineno |-> r.lineno, heap |-> r.heap, behind |-> r.behind]

\* yp_lex_token assigning previous after the dispatcher has run
yp_lex_token_late(p) ==
    LET typed(r) == [r EXCEPT !.current.type = r.type, !.previous = p.current]
    IN  typed(lex_token_type(p))

yp_lex_token(p) ==
    LET typed(r) == [r EXCEPT !.current.type = r.type]
    IN  typed(lex_token_type([p EXCEPT !.previous = p.current]))

\* The environments that make a difference to this call.  Which memory the
\* call touches does not depend on what the memory holds: the byte before
\* the buffer is read before anything is decided on it, and the contents
\* of a node are read by later calls only.
Environments(p) ==
    LET consulted(r) ==
            [before : IF \E i \in r.reads : i < 0 THEN BeforeBytes ELSE {NUL},
             fresh : IF "fresh" \in r.used THEN Garbage ELSE {ZeroGarbage},
             wild : IF "wild" \in r.used THEN Garbage ELSE {ZeroGarbage},
             trap : IF p.lex_modes.current.kind = "wild" \/ r.corrupt
                    THEN BOOLEAN ELSE {FALSE}]
    IN  consulted(yp_lex_token(Enter(p, Calm)))

\* The call does not return: it read memory that is not mapped, or an
\* access through a bad pointer trapped.
Faulted(p, r, env) ==
    \/ \E i \in r.reads : i > Size + Pad
    \/ env.before = UNMAPPED /\ \E i \in r.reads : i < 0
    \/ env.trap /\ (p.lex_modes.current.kind = "wild" \/ r.corrupt)

\* nothing observed yet
Unseen == [reads |-> {}, mode |-> "", corrupt |-> FALSE, opened |-> <<>>]

\* What the calls so far have observed: the offsets read, the mode the last
\* call switched on, a bad free, and the modes whose interpolations are
\* open: the mode on top when a call returns EMBEXPR_BEGIN is put on record
\* and the latest one is struck off when a call returns EMBEXPR_END.
Observe(r) ==
    [reads |-> seen.reads \cup r.reads,
     mode |-> r.mode,
     corrupt |-> seen.corrupt \/ r.corrupt,
     opened |->
        CASE r.type = "EMBEXPR_BEGIN" ->
                Append(seen.opened, [mode |-> Top(parser).mode,
                                     term |-> Top(parser).term,
                                     interp |-> Top(parser).interp])
          [] r.type = "EMBEXPR_END" /\ seen.opened # <<>> ->
                SubSeq(seen.opened, 1, Len(seen.opened) - 1)
          [] OTHER -> seen.opened]

Record(r) ==
    IF Len(tokens) < MaxTokens THEN Append(tokens, r.current) ELSE tokens

----------------------------------------------------------------------------
(* Inputs *)

Alphabet == {":", "1", "a", "\"", "#", "{", "}", "%", "w", " ", "\n", "="}

TailBytes == {NUL, "a"}

Short == UNION {[1..n -> Alphabet] : n \in 0..MaxLen}

\* 1_000_000
IntegerUnderscores ==
    <<"1", "_", "0", "0", "0", "_", "0", "0", "0">>

\* 1_000_
IntegerTrailingUnderscore ==
    <<"1", "_", "0", "0", "0", "_">>

\* 0xFF 0b11 0o17 017 0d9 1.5e-3 2r 3i
NumericKinds ==
    <<"0", "x", "F", "F", " ", "0", "b", "1", "1", " ", "0", "o", "1", "7",
       " ", "0", "1", "7", " ", "0", "d", "9", " ", "1", ".", "5", "e", "-",
       "3", " ", "2", "r", " ", "3", "i">>

\* "a#{b}c"
Interpolation ==
    <<"\"", "a", "#", "{", "b", "}", "c", "\"">>

\* %w[one two]
WordList ==
    <<"%", "w", "[", "o", "n", "e", " ", "t", "w", "o", "]">>

\* =begin doc =end, each on a line of its own, at the start of the buffer
EmbDoc ==
    <<"=", "b", "e", "g", "i", "n", "\n", "d", "o", "c", "\n", "=", "e", "n",
       "d", "\n">>

\* the same after an empty line
EmbDocAfterNewline ==
    <<"\n", "=", "b", "e", "g", "i", "n", "\n", "d", "o", "c", "\n", "=",
       "e", "n", "d", "\n">>

\* def foo!(x); x.class; end
MethodCall ==
    <<"d", "e", "f", " ", "f", "o", "o", "!", "(", "x", ")", ";", " ", "x",
       ".", "c", "l", "a", "s", "s", ";", " ", "e", "n", "d">>

\* /ab#{c}d/i
RegexpInterpolation ==
    <<"/", "a", "b", "#", "{", "c", "}", "d", "/", "i">>

\* :foo= :bar
Symbols ==
    <<":", "f", "o", "o", "=", " ", ":", "b", "a", "r">>

\* an unterminated "abc
UnterminatedString ==
    <<"\"", "a", "b", "c">>

\* -> { 1 }
Lambda ==
    <<"-", ">", " ", "{", " ", "1", " ", "}">>

\* {a: 1}
Label ==
    <<"{", "a", ":", " ", "1", "}">>

\* :1
SymbolDigit ==
    <<":", "1">>

\* ^D and then an identifier
EndOfScript ==
    <<CTRL_D, "a">>

\* <<-a
Heredoc ==
    <<"<", "<", "-", "a">>

\* %w as the last two bytes
PercentAtEnd ==
    <<"%", "w">>

\* two strings, each with an open interpolation: four pushes
DeepOpen ==
    <<"\"", "#", "{", "\"", "#", "{">>

\* the same, with an integer inside and every literal closed
DeepClosed ==
    <<"\"", "#", "{", "\"", "#", "{", "1", "}", "\"", "}", "\"">>

\* a string in an interpolation in a string, closed: three pushes
NestedClosed ==
    <<"\"", "#", "{", "\"", "a", "\"", "}", "\"">>

\* an unterminated %w[a and a blank
UnterminatedList ==
    <<"%", "w", "[", "a", " ">>

\* an unterminated /ab
UnterminatedRegexp ==
    <<"/", "a", "b">>

\* an empty line, =begin and a line of documentation that has no newline
UnterminatedEmbDoc ==
    <<"\n", "=", "b", "e", "g", "i", "n", "\n", "d", "o", "c">>

\* "a#{"b#{ : the second interpolation is the fourth push
DeepContent ==
    <<"\"", "a", "#", "{", "\"", "b", "#", "{">>

Scenarios ==
    {UnterminatedList,
     UnterminatedRegexp,
     UnterminatedEmbDoc,
     DeepContent,
     IntegerUnderscores,
     IntegerTrailingUnderscore,
     NumericKinds,
     Interpolation,
     WordList,
     EmbDoc,
     EmbDocAfterNewline,
     MethodCall,
     RegexpInterpolation,
     Symbols,
     UnterminatedString,
     Lambda,
     Label,
     SymbolDigit,
     EndOfScript,
     Heredoc,
     PercentAtEnd,
     DeepOpen,
     DeepClosed,
     NestedClosed}

\* every keyword alone, and as the method name of a call on foo
KeywordInputs ==
    {Keywords[k].value : k \in 1..Len(Keywords)}
        \cup {<<"f", "o", "o", ".">> \o Keywords[k].value : k \in 1..Len(Keywords)}
        \cup {<<"d", "e", "f", "i", "n", "e", "d", "?">>,
              <<"f", "o", "o", ".", "d", "e", "f", "i", "n", "e", "d", "?">>}

\* digit runs with underscores
UnderscoreInputs ==
    {IntegerUnderscores, IntegerTrailingUnderscore,
     <<"1", "2">>, <<"1", "_", "0">>, <<"1", "2", "_", "0">>,
     <<"1", "_">>, <<"1", "2", "_">>}

\* integers of every base
IntegerInputs ==
    {<<"0", x>> \o d : x \in {"x", "X"}, d \in {<<"F", "F">>, <<"1", "a">>}}
        \cup {<<"0", x>> \o d : x \in {"b", "B"}, d \in {<<"1", "1">>, <<"0">>}}
        \cup {<<"0", x>> \o d : x \in {"o", "O"}, d \in {<<"1", "7">>, <<"7">>}}
        \cup {<<"0", x>> \o d : x \in {"d", "D"}, d \in {<<"9">>, <<"1", "0">>}}
        \cup {<<"0", "1", "7">>, <<"0", "7">>}

\* numbers with a fractional part, an exponent, or both
Whole == {<<"0">>, <<"1">>, <<"4", "2">>}
Fraction == {<<".", "5">>, <<".", "2", "5">>}
Exponent == {<<"e", "3">>, <<"E", "1", "0">>, <<"e", "-", "3">>, <<"e", "+", "3">>}
FloatInputs ==
    {w \o f : w \in Whole, f \in Fraction}
        \cup {w \o e : w \in Whole, e \in Exponent}
        \cup {w \o f \o e : w \in Whole, f \in Fraction, e \in Exponent}

Numbers == IntegerInputs \cup Whole \cup FloatInputs
RationalInputs == {n \o <<"r">> : n \in Numbers}
ImaginaryInputs == {n \o <<"i">> : n \in Numbers} \cup {n \o <<"r", "i">> : n \in Numbers}

NumericInputs ==
    UnderscoreInputs \cup Numbers \cup RationalInputs \cup ImaginaryInputs

\* word lists: %w[ and up to MaxList bytes of words, blanks, newlines and
\* closing brackets, and a symbol list in parentheses
MaxList == 3
ListBodies == UNION {[1..n -> {"a", " ", "\n", "]"}] : n \in 0..MaxList}
ListInputs ==
    {<<"%", "w", "[">> \o body : body \in ListBodies}
        \cup {<<"%", "I", "(", "a", "]", " ", " ", "b", ")">>}

\* embedded documentation: an empty line, =begin, and up to MaxDoc pieces,
\* each a byte, a newline, or =end with or without its newline
MaxDoc == 3
DocPieces == {<<"a">>, <<"\n">>, <<"=", "e", "n", "d", "\n">>, <<"=", "e", "n", "d">>}
RECURSIVE DocBodies(_)
DocBodies(n) ==
    IF n = 0 THEN {<<>>}
    ELSE DocBodies(n - 1) \cup {body \o piece : body \in DocBodies(n - 1), piece \in DocPieces}
EmbDocInputs ==
    {<<"\n", "=", "b", "e", "g", "i", "n", "\n">> \o body : body \in DocBodies(MaxDoc)}

\* names (an identifier, a constant, two keywords) and what may follow a
\* name: nothing, a blank, an assignment, a suffix, a colon
Names == {<<"a">>, <<"A">>, <<"i", "f">>, <<"E", "N", "D">>}
Followers ==
    {<<>>, <<" ">>, <<"=">>, <<"=", " ">>, <<"=", "=">>, <<"!">>, <<"!", " ">>,
     <<"!", "=">>, <<"?", "=">>, <<":">>, <<":", " ">>, <<":", ":">>, <<":", "a">>}

\* a symbol: a colon and a name
SymbolInputs ==
    {<<":">> \o name \o follower : name \in Names, follower \in Followers}

\* a name in code
WordInputs ==
    {name \o follower : name \in Names, follower \in Followers}

\* the operators that name a method with an @, and what may come before
\* one: nothing, def, a receiver and a dot, an operand
Operators == {"!", "+", "-", "~"}
Contexts ==
    {<<>>, <<"d", "e", "f", " ">>, <<"a", ".">>, <<"a", " ">>, <<"a", ".", " ">>}

\* an operator and an @ in each context
OperatorInputs ==
    {context \o <<op, "@">> : context \in Contexts, op \in Operators}

\* a number with the imaginary suffix before the rational one
ReversedSuffixInputs == {n \o <<"i", "r">> : n \in Numbers}

\* defined? with a byte after it, alone and as the method of a call
DefinedInputs ==
    {<<"d", "e", "f", "i", "n", "e", "d", "?", " ">>,
     <<"a", ".", "d", "e", "f", "i", "n", "e", "d", "?", " ">>}

\* "#{{}}": a pair of braces inside an interpolation
NestedBraces ==
    <<"\"", "#", "{", "{", "}", "}", "\"">>

\* =begin and a newline that do not start a line
EmbDocMidLine ==
    <<"1", " ", "=", "b", "e", "g", "i", "n", "\n", "=", "e", "n", "d", "\n">>

\* what may follow a dollar sign: digits, names, special bytes, others
AfterDollar ==
    {<<>>, <<"0">>, <<"0", "1">>, <<"1">>, <<"1", "0">>, <<"9", "a">>, <<"a">>,
     <<"a", "1">>, <<"_">>, <<"A", " ">>, <<"~">>, <<"$">>, <<"\"">>, <<"&">>,
     <<"+">>, <<"'">>, <<" ">>, <<"-">>, <<"(">>}

\* a global variable, a back reference, an nth reference, or none of them
GlobalInputs == {<<"$">> \o after : after \in AfterDollar}

Inputs ==
    Short \cup Scenarios \cup KeywordInputs \cup NumericInputs \cup ListInputs
        \cup EmbDocInputs \cup SymbolInputs \cup WordInputs \cup OperatorInputs
        \cup GlobalInputs \cup {EmbDocMidLine} \cup ReversedSuffixInputs
        \cup DefinedInputs \cup {NestedBraces}

----------------------------------------------------------------------------
(* The state machine: yp_parser_init, then any number of yp_lex_token calls *)

Init ==
    /\ source \in Inputs
    /\ tail \in [1..Pad -> TailBytes]
    /\ parser = yp_parser_init
    /\ twin = yp_parser_init
    /\ pc = "init"
    /\ tokens = <<>>
    /\ seen = Unseen

\* one call of yp_lex_token(&parser)
LexToken ==
    /\ pc # "fault"
    /\ \E env \in Environments(parser) :
          \E r \in {yp_lex_token(Enter(parser, env))} :
              IF Faulted(parser, r, env)
              THEN /\ pc' = "fault"
                   /\ UNCHANGED <<source, tail, parser, twin, tokens, seen>>
              ELSE /\ parser' = Parser(r)
                   /\ pc' = "lexed"
                   /\ tokens' = Record(r)
                   /\ seen' = Observe(r)
                   /\ UNCHANGED <<source, tail, twin>>

Next == LexToken

Spec == Init /\ [][Next]_vars

----------------------------------------------------------------------------
(* Two parsers, each initialised on the same buffer, called in turn for as *)
(* long as their tokens agree.  Each call finds its own environment.       *)

TwinInputs ==
    Short \cup {Interpolation, NestedClosed, DeepOpen, SymbolDigit}

TwinInit == Init /\ source \in TwinInputs

LexBoth ==
    /\ pc # "fault"
    /\ twin.current = parser.current
    /\ \E env \in Environments(parser), other \in Environments(twin) :
          \E r \in {yp_lex_token(Enter(parser, env))},
             t \in {yp_lex_token(Enter(twin, other))} :
              IF Faulted(parser, r, env) \/ Faulted(twin, t, other)
              THEN /\ pc' = "fault"
                   /\ UNCHANGED <<source, tail, parser, twin, tokens, seen>>
              ELSE /\ parser' = Parser(r)
                   /\ twin' = Parser(t)
                   /\ pc' = "lexed"
                   /\ tokens' = Record(r)
                   /\ seen' = Observe(r)
                   /\ UNCHANGED <<source, tail>>

TwinNext == LexBoth

TwinSpec == TwinInit /\ [][TwinNext]_vars

----------------------------------------------------------------------------
(* The round trip of a numeric token: when a call has returned INTEGER the *)
(* bytes of the token are copied into a buffer of their own, a parser is   *)
(* initialised on it and called once.                                      *)

\* the longest buffer over NumericAlphabet that is an input
MaxNumeric == 4

NumericAlphabet == {"0", "1", "_", ".", "e", "x", "b", "r"}

NumericShort == UNION {[1..n -> NumericAlphabet] : n \in 1..MaxNumeric}

RoundTripInputs == Inputs \cup NumericShort

RoundTripInit ==
    /\ source \in RoundTripInputs
    /\ tail \in [1..Pad -> TailBytes]
    /\ parser = yp_parser_init
    /\ twin = yp_parser_init
    /\ pc = "init"
    /\ tokens = <<>>
    /\ seen = Unseen

\* a call on the parser of the input
LexFirst ==
    /\ pc \in {"init", "lexed"}
    /\ LexToken

\* yp_parser_init on a buffer that holds the lexeme of the current token and
\* nothing else; twin keeps the parser the lexeme came from
Reparse ==
    /\ pc = "lexed"
    /\ parser.current.type = "INTEGER"
    /\ source' = Lexeme(Enter(parser, Calm))
    /\ tail' \in [1..Pad -> TailBytes]
    /\ twin' = parser
    /\ parser' = yp_parser_init
    /\ pc' = "alone"
    /\ tokens' = <<>>
    /\ seen' = Unseen

\* the one call of yp_lex_token on the buffer of the lexeme
LexAgain ==
    /\ pc = "alone"
    /\ \E env \in Environments(parser) :
          \E r \in {yp_lex_token(Enter(parser, env))} :
              IF Faulted(parser, r, env)
              THEN /\ pc' = "fault"
                   /\ UNCHANGED <<source, tail, parser, twin, tokens, seen>>
              ELSE /\ parser' = Parser(r)
                   /\ pc' = "again"
                   /\ tokens' = Record(r)
                   /\ seen' = Observe(r)
                   /\ UNCHANGED <<source, tail, twin>>

RoundTripNext == LexFirst \/ Reparse \/ LexAgain

RoundTripSpec == RoundTripInit /\ [][RoundTripNext]_vars

----------------------------------------------------------------------------
(* Properties *)

\* the parser as the lexer functions take it, outside any call
AtRest == Enter(parser, Calm)

\* the last call returned, and returned type
Returned(type) == pc = "lexed" /\ parser.current.type = type

\* the kinds of the first n tokens
Kinds(n) == [i \in 1..n |-> tokens[i].type]

\* C1: on every input a finite number of yp_lex_token calls yields a token
\* of kind EOF; no input makes the lexer return tokens other than EOF
\* forever.  A call that returns and leaves the parser exactly as it found
\* it finds the same parser and the same buffer the next time, so it repeats
\* for ever: unless the parser is to give such tokens without end, a call
\* of that kind has returned EOF.
C1_EventuallyEOF ==
    [][(pc' = "lexed" /\ parser' = parser) => parser'.current.type = "EOF"]_vars

\* C2: once a call has set current.type to EOF, every later call on the same
\* parser sets current.type to EOF as well.
C2_EOFIsSticky ==
    [][(Returned("EOF") /\ pc' = "lexed") => parser'.current.type = "EOF"]_vars

\* C3: every token yp_lex_token writes into current has
\* 0 <= start <= end <= N, N the length of the input.
C3_TokenWithinBuffer ==
    pc = "lexed" =>
        /\ 0 <= parser.current.start
        /\ parser.current.start <= parser.current.end
        /\ parser.current.end <= Size

\* C4: for consecutive tokens previous.end <= current.start; the bytes
\* between them are non-newline whitespace when the token was lexed in the
\* default or the embedded expression mode, and there are none when it was
\* lexed in the embdoc, list, regexp, string or symbol mode.
C4_TokensInOrder ==
    (pc = "lexed" /\ parser.previous.start # NULL_OFFSET) =>
        /\ parser.previous.end <= parser.current.start
        /\ seen.mode \in {"DEFAULT", "EMBEXPR"} =>
              \A i \in parser.previous.end..(parser.current.start - 1) :
                  is_non_newline_whitespace_char(Byte(AtRest, i))
        /\ seen.mode \notin {"DEFAULT", "EMBEXPR"} =>
              parser.current.start = parser.previous.end

\* C5: two parsers initialised on the same buffer produce the same token
\* (kind, start and end) at every step, on every input, those that nest
\* literals deeper than the inline mode stack included.
C5_TwinsAgree == twin.current = parser.current

\* C6: in every state reachable from yp_parser_init by yp_lex_token calls
\* the mode stack is not empty and slot 0 of it has the default mode.
C6_BaseIsDefault ==
    /\ parser.lex_modes.index >= 0
    /\ parser.lex_modes.current # NullPtr
    /\ parser.lex_modes.stack[0].mode = "DEFAULT"

\* a string was opened and closed again: a push and a pop have acted
C6_Witness ==
    /\ Returned("STRING_END")
    /\ parser.lex_modes.index = 0
    /\ parser.lex_modes.stack[1].mode = "STRING"

\* inputs in which every literal, embdoc and interpolation that is opened is
\* closed before the end of the buffer
WellFormed ==
    {Interpolation, WordList, EmbDocAfterNewline, RegexpInterpolation,
     Symbols, NestedClosed, DeepClosed, MethodCall, Lambda, Label,
     NumericKinds, <<"\"", "\"">>, <<":", "a">>}
        \cup {w \in Short : \A i \in 1..Len(w) : w[i] \in {"1", "a", "w", " ", "\n"}}

\* C7: on well-formed input, when yp_lex_token returns EOF the mode stack
\* holds the base entry only: index is 0 and the current mode is default.
C7_DefaultOnlyAtEOF ==
    (source \in WellFormed /\ Returned("EOF")) =>
        /\ parser.lex_modes.index = 0
        /\ Top(parser).mode = "DEFAULT"

\* the closed keyword list: the KEYWORD lines of lex_identifier and defined?
KeywordList ==
    Keywords \o <<[value |-> <<"d", "e", "f", "i", "n", "e", "d", "?">>,
                   token |-> "KEYWORD_DEFINED"]>>

\* C8: for every keyword K of the list, the buffer foo.K yields IDENTIFIER,
\* DOT and an IDENTIFIER whose lexeme is K, and the buffer K yields the
\* keyword token of K.
C8_KeywordsByContext ==
    \A k \in 1..Len(KeywordList) :
        LET K == KeywordList[k] IN
        /\ (source = K.value /\ Len(tokens) >= 1) =>
              tokens[1] = Token(K.token, 0, Len(K.value))
        /\ (source = <<"f", "o", "o", ".">> \o K.value /\ Len(tokens) >= 3) =>
              /\ tokens[2].type = "DOT"
              /\ tokens[3] = Token("IDENTIFIER", 4, 4 + Len(K.value))

\* a run of decimal digits and underscores that starts with a digit other
\* than 0 and has no two underscores in a row
DigitRun(s) ==
    /\ Len(s) >= 1
    /\ s[1] \in Digits09 \ {"0"}
    /\ \A i \in 1..Len(s) : s[i] \in Digits09 \cup {"_"}
    /\ \A i \in 1..(Len(s) - 1) : ~(s[i] = "_" /\ s[i + 1] = "_")

\* C9: a digit run whose underscores stand singly between digits is lexed
\* as one INTEGER token that covers the run, followed by EOF; a digit run
\* that ends in an underscore is lexed as INVALID; also when the underscore
\* follows the first digit at once.
C9_UnderscoredIntegers ==
    (DigitRun(source) /\ Len(tokens) >= 2) =>
        IF source[Size] = "_"
        THEN tokens[1].type = "INVALID"
        ELSE tokens[1] = Token("INTEGER", 0, Size) /\ tokens[2].type = "EOF"

\* C10: integers with a 0x, 0b, 0o or 0d prefix or a leading zero are
\* INTEGER, a number with a fractional part or an exponent is FLOAT, a
\* number followed by r is RATIONAL_NUMBER and one followed by i is
\* IMAGINARY_NUMBER: each is one token that covers the input, and the
\* buffer 0xFF 0b11 0o17 017 0d9 1.5e-3 2r 3i yields five INTEGER, FLOAT,
\* RATIONAL_NUMBER and IMAGINARY_NUMBER.
C10_NumericKinds ==
    /\ (source = NumericKinds /\ Len(tokens) >= 8) =>
          Kinds(8) = <<"INTEGER", "INTEGER", "INTEGER", "INTEGER", "INTEGER",
                       "FLOAT", "RATIONAL_NUMBER", "IMAGINARY_NUMBER">>
    /\ Len(tokens) >= 1 =>
          /\ source \in IntegerInputs => tokens[1] = Token("INTEGER", 0, Size)
          /\ source \in FloatInputs => tokens[1] = Token("FLOAT", 0, Size)
          /\ source \in RationalInputs =>
                tokens[1] = Token("RATIONAL_NUMBER", 0, Size)
          /\ source \in ImaginaryInputs =>
                tokens[1] = Token("IMAGINARY_NUMBER", 0, Size)

\* the whole of the buffer 0xFF ... 3i has been lexed
C10_Witness ==
    /\ source = NumericKinds
    /\ Len(tokens) = 9
    /\ tokens[9].type = "EOF"

\* C11: for every input, the lexeme of a token emitted as INTEGER, placed
\* alone in a buffer and lexed again, is consumed entirely as one INTEGER
\* token: the call on the buffer of the lexeme returns INTEGER from the
\* first byte of the buffer to its last.
C11_IntegerRoundTrip ==
    pc = "again" => parser.current = Token("INTEGER", 0, Size)

\* an integer with a base prefix, taken out of the middle of a longer
\* buffer, has been lexed again
C11_Witness ==
    /\ pc = "again"
    /\ Size >= 3
    /\ source[2] \in {"x", "b"}
    /\ twin.current.end - twin.current.start = Size
    /\ twin.current.start > 0

\* the lexer is in a mode that looks for interpolations: the regexp mode, or
\* the string mode with the interp flag set
Interpolating(p) ==
    \/ Top(p).mode = "REGEXP"
    \/ Top(p).mode = "STRING" /\ Top(p).interp

\* the bytes at offset i, inside the buffer, are #{
InterpolationAt(p, i) ==
    i < Size /\ Byte(p, i) = "#" /\ Byte(p, i + 1) = "{"

\* the k bytes from the cursor on are content of the literal: none is the
\* terminator and none starts an interpolation
ContentRun(p, k) ==
    \A j \in 0..(k - 1) :
        /\ peek(p, j) # Top(p).term
        /\ ~InterpolationAt(p, p.current.end + j)

\* C12: in the string (interpolating) or regexp mode, when #{ is met after
\* content has accumulated the call returns the content as STRING_CONTENT
\* and leaves the mode stack alone, and the call that finds the cursor at
\* #{ consumes these two bytes, pushes the embedded expression mode and
\* returns EMBEXPR_BEGIN; "a#{b}c" and /ab#{c}d/i yield the seven tokens
\* STRING_BEGIN or REGEXP_BEGIN, STRING_CONTENT, EMBEXPR_BEGIN, IDENTIFIER,
\* EMBEXPR_END, STRING_CONTENT, STRING_END or REGEXP_END.
C12_InterpolationPush ==
    /\ [][(pc' = "lexed" /\ Interpolating(AtRest)) =>
            LET end == parser.current.end IN
            /\ \A k \in 1..Size :
                  (ContentRun(AtRest, k) /\ InterpolationAt(AtRest, end + k)) =>
                      /\ parser'.current = Token("STRING_CONTENT", end, end + k)
                      /\ parser'.lex_modes = parser.lex_modes
            /\ InterpolationAt(AtRest, end) =>
                  /\ parser'.current = Token("EMBEXPR_BEGIN", end, end + 2)
                  /\ parser'.lex_modes.index = parser.lex_modes.index + 1
                  /\ Top(parser').mode = "EMBEXPR"]_vars
    /\ [](/\ (source = Interpolation /\ Len(tokens) >= 7) =>
                SubSeq(tokens, 1, 7) =
                    <<Token("STRING_BEGIN", 0, 1), Token("STRING_CONTENT", 1, 2),
                      Token("EMBEXPR_BEGIN", 2, 4), Token("IDENTIFIER", 4, 5),
                      Token("EMBEXPR_END", 5, 6), Token("STRING_CONTENT", 6, 7),
                      Token("STRING_END", 7, 8)>>
          /\ (source = RegexpInterpolation /\ Len(tokens) >= 7) =>
                SubSeq(tokens, 1, 7) =
                    <<Token("REGEXP_BEGIN", 0, 1), Token("STRING_CONTENT", 1, 3),
                      Token("EMBEXPR_BEGIN", 3, 5), Token("IDENTIFIER", 5, 6),
                      Token("EMBEXPR_END", 6, 7), Token("STRING_CONTENT", 7, 8),
                      Token("REGEXP_END", 8, 10)>>)

\* C13: for interpolation nested to any depth, the depths at which the index
\* of the mode stack is 4 or more included, a call that returns EMBEXPR_END
\* leaves on top of the stack the literal mode that emitted the matching
\* EMBEXPR_BEGIN, with the same terminator and interpolation flag; the
\* buffer "#{"#{1}"}" lexes to the nested stream STRING_BEGIN,
\* EMBEXPR_BEGIN, STRING_BEGIN, EMBEXPR_BEGIN, INTEGER, EMBEXPR_END,
\* STRING_END, EMBEXPR_END, STRING_END and then EOF.
C13_NestedInterpolation ==
    /\ [][(pc' = "lexed" /\ parser'.current.type = "EMBEXPR_END") =>
            /\ seen.opened # <<>>
            /\ LET literal == seen.opened[Len(seen.opened)] IN
               /\ literal.mode \in {"REGEXP", "STRING"}
               /\ Top(parser').mode = literal.mode
               /\ Top(parser').term = literal.term
               /\ Top(parser').interp = literal.interp]_vars
    /\ []((source = DeepClosed /\ Len(tokens) >= 10) =>
             Kinds(10) = <<"STRING_BEGIN", "EMBEXPR_BEGIN", "STRING_BEGIN",
                           "EMBEXPR_BEGIN", "INTEGER", "EMBEXPR_END",
                           "STRING_END", "EMBEXPR_END", "STRING_END", "EOF">>)

\* the modes of the literals that have an unterminated_* callback
LiteralModes == {"EMBDOC", "LIST", "REGEXP", "STRING"}

SeparatorRun(p, k) ==
    /\ \A j \in 0..(k - 1) : is_whitespace_char(peek(p, j))
    /\ ~is_whitespace_char(peek(p, k))

\* the k bytes from the cursor on are neither whitespace nor the terminator
\* of the list and the next one, inside the buffer, is one or the other
WordRun(p, k) ==
    /\ \A j \in 0..(k - 1) :
          ~is_whitespace_char(peek(p, j)) /\ peek(p, j) # Top(p).term
    /\ p.current.end + k < Size
    /\ is_whitespace_char(peek(p, k)) \/ peek(p, k) = Top(p).term

\* C15: in the list mode a run of whitespace at the start of a token is
\* emitted as WORDS_SEP, a run of bytes that are neither whitespace nor the
\* terminator as STRING_CONTENT, both with the mode stack left alone, and
\* the terminator (a byte that is not whitespace) met with no content
\* gathered is consumed, the mode is popped and STRING_END is emitted;
\* %w[one two] yields PERCENT_LOWER_W, STRING_CONTENT(one), WORDS_SEP,
\* STRING_CONTENT(two), STRING_END.
C15_ListTokens ==
    /\ [][(pc' = "lexed" /\ Top(AtRest).mode = "LIST" /\ parser.current.end < Size) =>
            LET end == parser.current.end IN
            /\ \A k \in 1..Size :
                  /\ SeparatorRun(AtRest, k) =>
                        /\ parser'.current = Token("WORDS_SEP", end, end + k)
                        /\ parser'.lex_modes = parser.lex_modes
                  /\ WordRun(AtRest, k) =>
                        /\ parser'.current = Token("STRING_CONTENT", end, end + k)
                        /\ parser'.lex_modes = parser.lex_modes
            /\ (peek(AtRest, 0) = Top(AtRest).term
                    /\ ~is_whitespace_char(peek(AtRest, 0))) =>
                  /\ parser'.current = Token("STRING_END", end, end + 1)
                  /\ parser'.lex_modes.index = parser.lex_modes.index - 1
                  /\ parser.lex_modes.current.kind = "stack" =>
                        parser'.lex_modes.current =
                            StackPtr(parser.lex_modes.index - 1)]_vars
    /\ []((source = WordList /\ Len(tokens) >= 5) =>
             SubSeq(tokens, 1, 5) =
                 <<Token("PERCENT_LOWER_W", 0, 3), Token("STRING_CONTENT", 3, 6),
                   Token("WORDS_SEP", 6, 7), Token("STRING_CONTENT", 7, 10),
                   Token("STRING_END", 10, 11)>>)

\* the list of %w[one two] has been lexed to its end and the mode popped
C15_Witness ==
    /\ source = WordList
    /\ Len(tokens) = 5
    /\ Returned("STRING_END")
    /\ seen.mode = "LIST"
    /\ parser.lex_modes.index = 0

\* the bytes of the buffer from offset i on begin with str
StartsWith(i, str) ==
    /\ i + Len(str) <= Size
    /\ \A j \in 1..Len(str) : source[i + j] = str[j]

ScannedIdentifier ==
    lex_identifier(advance([AtRest EXCEPT !.previous = parser.current,
                                          !.current.start = parser.current.end], 1))

\* C17: in the symbol mode an identifier that is immediately followed by an
\* equals sign is emitted as IDENTIFIER with the sign in the lexeme,
\* whatever type lex_identifier returned for it (a keyword and CONSTANT
\* included); otherwise the type of lex_identifier is emitted;
\* :foo= :bar yields SYMBOL_BEGIN, IDENTIFIER(foo=), SYMBOL_BEGIN,
\* IDENTIFIER(bar).
C17_SymbolSetter ==
    /\ [][(/\ pc' = "lexed"
           /\ Top(AtRest).mode = "SYMBOL"
           /\ parser.current.end < Size
           /\ is_identifier_start_char(peek(AtRest, 0))) =>
              LET start == parser.current.end
                  end == ScannedIdentifier.current.end
              IN  IF peek(ScannedIdentifier, 0) = "="
                  THEN parser'.current = Token("IDENTIFIER", start, end + 1)
                  ELSE parser'.current = Token(ScannedIdentifier.type, start, end)]_vars
    /\ []((source = Symbols /\ Len(tokens) >= 4) =>
             SubSeq(tokens, 1, 4) =
                 <<Token("SYMBOL_BEGIN", 0, 1), Token("IDENTIFIER", 1, 5),
                   Token("SYMBOL_BEGIN", 6, 7), Token("IDENTIFIER", 7, 10)>>)
    /\ [](\A name \in Names :
             /\ (source = <<":">> \o name \o <<"=">> /\ Len(tokens) >= 2) =>
                   tokens[2] = Token("IDENTIFIER", 1, Size)
             /\ (source = <<":">> \o name /\ Len(tokens) >= 2) =>
                   tokens[2] =
                       Token(CASE name = <<"a">> -> "IDENTIFIER"
                               [] name = <<"A">> -> "CONSTANT"
                               [] name = <<"i", "f">> -> "KEYWORD_IF"
                               [] name = <<"E", "N", "D">> -> "KEYWORD_END_UPCASE",
                             1, Size))

\* the setter name of a keyword has been lexed in the symbol mode
C17_Witness ==
    /\ source = <<":", "i", "f", "=">>
    /\ Returned("IDENTIFIER")
    /\ seen.mode = "SYMBOL"
    /\ parser.current.end = Size

\* what lex_identifier makes of the identifier that follows the whitespace
\* at the cursor
ScannedWord ==
    LET began(ws) ==
            lex_identifier(advance([ws EXCEPT !.current.start = ws.current.end], 1))
    IN  began(skip_whitespace([AtRest EXCEPT !.previous = parser.current]))

\* C18: in the default and the embedded expression mode, when the byte
\* after a scanned identifier is a colon and the byte after that is not a
\* colon, the colon is consumed and the token is a LABEL whatever type
\* lex_identifier returned; otherwise the type of lex_identifier is
\* emitted; {a: 1} yields BRACE_LEFT, LABEL(a:), INTEGER, BRACE_RIGHT.
C18_Labels ==
    /\ [][(/\ pc' = "lexed"
           /\ Top(AtRest).mode \in {"DEFAULT", "EMBEXPR"}
           /\ ScannedWord.current.start < Size
           /\ is_identifier_start_char(Byte(AtRest, ScannedWord.current.start))) =>
              LET start == ScannedWord.current.start
                  end == ScannedWord.current.end
              IN  IF peek(ScannedWord, 0) = ":" /\ peek(ScannedWord, 1) # ":"
                  THEN parser'.current = Token("LABEL", start, end + 1)
                  ELSE parser'.current = Token(ScannedWord.type, start, end)]_vars
    /\ []((source = Label /\ Len(tokens) >= 4) =>
             SubSeq(tokens, 1, 4) =
                 <<Token("BRACE_LEFT", 0, 1), Token("LABEL", 1, 3),
                   Token("INTEGER", 4, 5), Token("BRACE_RIGHT", 5, 6)>>)
    /\ [](\A name \in Names :
             /\ (source \in {name \o <<":">>, name \o <<":", " ">>, name \o <<":", "a">>}
                     /\ Len(tokens) >= 1) =>
                   tokens[1] = Token("LABEL", 0, Len(name) + 1)
             /\ (source = name \o <<":", ":">> /\ Len(tokens) >= 2) =>
                   /\ tokens[1] =
                         Token(CASE name = <<"a">> -> "IDENTIFIER"
                                 [] name = <<"A">> -> "CONSTANT"
                                 [] name = <<"i", "f">> -> "KEYWORD_IF"
                                 [] name = <<"E", "N", "D">> -> "KEYWORD_END_UPCASE",
                               0, Len(name))
                   /\ tokens[2] = Token("COLON_COLON", Len(name), Size))

\* the label of {a: 1} has been lexed
C18_Witness ==
    /\ source = Label
    /\ Len(tokens) = 2
    /\ parser.current = Token("LABEL", 1, 3)
    /\ seen.mode = "DEFAULT"

\* C19: every call of yp_lex_token that returns INVALID leaves the cursor
\* (current.end) at least one byte beyond where it was when the call began,
\* in every lex mode, also when the cursor is at the end of the buffer
\* already.
C19_InvalidAdvances ==
    [][(pc' = "lexed" /\ parser'.current.type = "INVALID") =>
          parser'.current.end >= parser.current.end + 1]_vars

\* The token types that yp_lex_token returns right after a push_lex_mode.
Openers ==
    {"EMBDOC_BEGIN", "EMBEXPR_BEGIN", "SYMBOL_BEGIN", "BACKTICK", "STRING_BEGIN",
     "REGEXP_BEGIN", "PERCENT_LOWER_I", "PERCENT_UPPER_I", "PERCENT_LOWER_W",
     "PERCENT_UPPER_W", "PERCENT_LOWER_X"}

\* The argument of the push_lex_mode call behind the opener in p.current,
\* read off the call sites: the opener's type and its first three bytes.
PushedMode(p) ==
    LET type == p.current.type
        first == Byte(p, p.current.start)
        letter == Byte(p, p.current.start + 1)
        term == terminator(Byte(p, p.current.start + 2))
    IN  CASE type = "EMBDOC_BEGIN" -> LexMode("EMBDOC", NUL, FALSE)
          [] type = "EMBEXPR_BEGIN" -> LexMode("EMBEXPR", NUL, FALSE)
          [] type = "SYMBOL_BEGIN" -> LexMode("SYMBOL", NUL, FALSE)
          [] type = "BACKTICK" -> LexMode("STRING", BACKTICK, TRUE)
          [] type = "STRING_BEGIN" /\ first = "\"" -> LexMode("STRING", "\"", TRUE)
          [] type = "STRING_BEGIN" /\ first = "'" -> LexMode("STRING", "'", FALSE)
          [] type = "STRING_BEGIN" /\ first = "%" ->
                LexMode("STRING", term, letter = "Q")
          [] type = "REGEXP_BEGIN" /\ first = "/" -> LexMode("REGEXP", "/", FALSE)
          [] type = "REGEXP_BEGIN" /\ first = "%" -> LexMode("REGEXP", term, TRUE)
          [] type \in {"PERCENT_LOWER_I", "PERCENT_LOWER_W"} ->
                LexMode("LIST", term, FALSE)
          [] type \in {"PERCENT_UPPER_I", "PERCENT_UPPER_W"} ->
                LexMode("LIST", term, TRUE)
          [] type = "PERCENT_LOWER_X" -> LexMode("STRING", term, TRUE)

\* C20: after push_lex_mode(m), at any stack depth, inline or overflow, the
\* top entry carries m's mode tag, terminator and interpolation flag, its
\* prev link is the entry that was the top before the push, and the index
\* has grown by exactly one.
C20_PushLinksTop ==
    [][(pc' = "lexed" /\ parser'.current.type \in Openers) =>
          LET pushed(m) ==
                  /\ parser'.lex_modes.index = parser.lex_modes.index + 1
                  /\ Top(parser') = [m EXCEPT !.prev = parser.lex_modes.current]
          IN  pushed(PushedMode(Enter(parser', Calm)))]_vars

\* Modes the lexer passes to push_lex_mode, one of each kind.
PushedModes ==
    {LexMode("EMBDOC", NUL, FALSE), LexMode("EMBEXPR", NUL, FALSE),
     LexMode("SYMBOL", NUL, FALSE), LexMode("STRING", "\"", TRUE),
     LexMode("REGEXP", "/", FALSE), LexMode("LIST", "]", FALSE)}

\* C21: pop_lex_mode after push_lex_mode(m) is the identity on the mode
\* stack: from every reachable stack state, index 3 included, where the
\* push goes from the inline slots to the heap, the index is what it was
\* and current refers to the entry it referred to before the push, with
\* the same mode, terminator and interpolation flag.
C21_PushPopIdentity ==
    \A m \in PushedModes : \A fresh \in Garbage :
        LET before == Enter(parser, [Calm EXCEPT !.fresh = fresh])
            after == pop_lex_mode(push_lex_mode(before, m))
        IN  /\ after.lex_modes.index = before.lex_modes.index
            /\ after.lex_modes.current = before.lex_modes.current
            /\ Top(after) = Top(before)

\* C22: when the token stream reaches EOF, every node a push beyond the
\* inline slots has allocated is freed, also when the EOF is the recovery
\* callback's and literals deeper than the inline slots are still open.
C22_NodesFreedAtEOF ==
    Returned("EOF") => \A k \in 1..Len(parser.heap) : ~parser.heap[k].live

\* The token types that yp_lex_token returns right after a pop_lex_mode.
Closers == {"EMBEXPR_END", "EMBDOC_END", "REGEXP_END", "STRING_END"}

\* This step is a call that has called pop_lex_mode: it returned a closer,
\* or it ran in the symbol mode and found the start of an identifier.
Popped ==
    /\ pc' = "lexed"
    /\ \/ parser'.current.type \in Closers
       \/ seen'.mode = "SYMBOL" /\ parser'.current.type # "INVALID"

\* C23: every call of pop_lex_mode the lexer makes finds index >= 1, on
\* every input: the branch of pop_lex_mode for index 0 is never taken.
C23_NoUnderflow == [][Popped => parser.lex_modes.index >= 1]_vars

\* two pushes were answered by two pops, and the second pop found index 1
C23_Witness ==
    /\ source = Interpolation
    /\ Returned("STRING_END")
    /\ Len(tokens) = 7
    /\ tokens[5].type = "EMBEXPR_END"
    /\ parser.lex_modes.index = 0

\* C24: in every call of yp_lex_token after the first, previous is the
\* token (type, start, end) the call before left in current when the
\* dispatcher runs, and the dispatcher leaves previous alone: the call
\* ends with previous being that token, and what the dispatcher decides on
\* previous (a brace after -> begins a lambda, no other brace does) it
\* decides on that token.
C24_PreviousIsLastToken ==
    /\ [][(pc = "lexed" /\ pc' = "lexed") => parser'.previous = parser.current]_vars
    /\ [](Returned("LAMBDA_BEGIN") => parser.previous.type = "MINUS_GREATER")
    /\ [](Returned("BRACE_LEFT") => parser.previous.type # "MINUS_GREATER")

\* the second call met the brace of -> { and saw the arrow of the first
C24_Witness ==
    /\ source = Lambda
    /\ Returned("LAMBDA_BEGIN")
    /\ Len(tokens) = 2
    /\ parser.previous = Token("MINUS_GREATER", 0, 2)

\* the newline bytes of buf[0, cursor)
NewlinesConsumed ==
    {i \in 0..(parser.current.end - 1) : i < Size /\ source[i + 1] = "\n"}

\* C25: after any sequence of yp_lex_token calls lineno is 1 plus the
\* number of newline bytes in buf[0, cursor): every newline consumed, in
\* every mode and inside every kind of token, is counted once.
C25_LinesCounted ==
    pc = "lexed" => parser.lineno = 1 + Cardinality(NewlinesConsumed)

\* C26: the interpolation flag of the top mode gates #{ : a call returns
\* EMBEXPR_BEGIN (and pushes the embexpr mode) only when the mode on top at
\* its start has interp set, whatever opened the literal, the bare / of a
\* regexp and the percent list openers included.
C26_InterpolationGated ==
    [][(pc' = "lexed" /\ parser'.current.type = "EMBEXPR_BEGIN") =>
          Top(parser).interp]_vars

\* This step is a call that ran the default dispatcher in the given mode
\* and switched on a closing brace: the token it returns starts there.
LexedBrace(mode) ==
    /\ pc' = "lexed"
    /\ seen'.mode = mode
    /\ Byte(AtRest, parser'.current.start) = "}"

\* C27: a closing brace lexed while the top mode is embexpr gives
\* EMBEXPR_END and pops exactly one mode (the index goes down by one, and
\* from an inline slot current goes to the slot below, the slots as they
\* were); lexed while the top mode is default it gives BRACE_RIGHT and the
\* mode stack, index and entries, is as it was.
C27_ClosingBrace ==
    /\ [][LexedBrace("EMBEXPR") =>
            /\ parser'.current =
                  Token("EMBEXPR_END", parser'.current.start, parser'.current.start + 1)
            /\ parser'.lex_modes.index = parser.lex_modes.index - 1
            /\ parser.lex_modes.current.kind = "stack" =>
                  /\ parser'.lex_modes.current = StackPtr(parser.lex_modes.index - 1)
                  /\ parser'.lex_modes.stack = parser.lex_modes.stack]_vars
    /\ [][LexedBrace("DEFAULT") =>
            /\ parser'.current =
                  Token("BRACE_RIGHT", parser'.current.start, parser'.current.start + 1)
            /\ parser'.lex_modes = parser.lex_modes
            /\ parser'.heap = parser.heap]_vars

\* the brace that closes the interpolation of "a#{b}c" was lexed and the
\* string mode is on top again
C27_Witness ==
    /\ source = Interpolation
    /\ Returned("EMBEXPR_END")
    /\ parser.current.start = 5
    /\ parser.lex_modes.index = 1
    /\ Top(parser).mode = "STRING"

\* the token of each operator with and without the @
OperatorTokens ==
    [at |-> [c \in Operators |->
                CASE c = "!" -> "BANG_AT" [] c = "+" -> "PLUS_AT"
                  [] c = "-" -> "MINUS_AT" [] c = "~" -> "TILDE_AT"],
     plain |-> [c \in Operators |->
                CASE c = "!" -> "BANG" [] c = "+" -> "PLUS"
                  [] c = "-" -> "MINUS" [] c = "~" -> "TILDE"]]

\* This step is a call that ran the default dispatcher and switched on the
\* operator c with an @ behind it: the token it returns starts there.
LexedOperator(c) ==
    /\ pc' = "lexed"
    /\ seen'.mode \in {"DEFAULT", "EMBEXPR"}
    /\ Byte(AtRest, parser'.current.start) = c
    /\ Byte(AtRest, parser'.current.start + 1) = "@"

\* C28: BANG_AT, PLUS_AT, MINUS_AT and TILDE_AT are returned only when the
\* token returned before has type KEYWORD_DEF or DOT; after any other
\* token the @ is left unconsumed and the plain operator is returned.
C28_OperatorMethods ==
    /\ [](\A c \in Operators :
            Returned(OperatorTokens.at[c]) =>
                parser.previous.type \in {"KEYWORD_DEF", "DOT"})
    /\ [][\A c \in Operators :
            LexedOperator(c) =>
                LET start == parser'.current.start IN
                IF parser.current.type \in {"KEYWORD_DEF", "DOT"}
                THEN parser'.current = Token(OperatorTokens.at[c], start, start + 2)
                ELSE parser'.current = Token(OperatorTokens.plain[c], start, start + 1)]_vars

\* a.+@ gave the method name after the dot
C28_Witness ==
    /\ source = <<"a", ".", "+", "@">>
    /\ Returned("PLUS_AT")
    /\ parser.current = Token("PLUS_AT", 2, 4)
    /\ parser.previous.type = "DOT"

\* C29: the symbol mode lasts one token: every call that starts with the
\* symbol mode on top ends with that entry popped (the index one lower,
\* and from an inline slot current on the slot below), whether it returns
\* an identifier kind or INVALID.
C29_SymbolModeOneToken ==
    [][(pc' = "lexed" /\ seen'.mode = "SYMBOL") =>
          /\ parser'.lex_modes.index = parser.lex_modes.index - 1
          /\ parser.lex_modes.current.kind = "stack" =>
                parser'.lex_modes.current = StackPtr(parser.lex_modes.index - 1)]_vars

\* This step is a call that ran the default dispatcher and switched on a
\* colon that no second colon follows: the token it returns starts there.
LexedColon ==
    /\ pc' = "lexed"
    /\ seen'.mode \in {"DEFAULT", "EMBEXPR"}
    /\ Byte(AtRest, parser'.current.start) = ":"
    /\ Byte(AtRest, parser'.current.start + 1) # ":"

\* C30: a colon not followed by a colon pushes the symbol mode and gives
\* SYMBOL_BEGIN only when the next byte starts an identifier (a letter or
\* an underscore); before any other byte, a decimal digit included, it
\* gives COLON and pushes no mode.
C30_ColonOrSymbol ==
    [][LexedColon =>
          LET start == parser'.current.start IN
          IF is_identifier_start_char(Byte(AtRest, start + 1))
          THEN /\ parser'.current = Token("SYMBOL_BEGIN", start, start + 1)
               /\ parser'.lex_modes.index = parser.lex_modes.index + 1
               /\ Top(parser').mode = "SYMBOL"
          ELSE /\ parser'.current = Token("COLON", start, start + 1)
               /\ parser'.lex_modes = parser.lex_modes]_vars

\* the number of bytes from offset i on that are in chars
RECURSIVE RunLength(_, _)
RunLength(i, chars) ==
    IF Byte(AtRest, i) \in chars THEN 1 + RunLength(i + 1, chars) ELSE 0

\* This step is a call that ran the default dispatcher and switched on a
\* dollar sign: the token it returns starts there.
LexedDollar ==
    /\ pc' = "lexed"
    /\ seen'.mode \in {"DEFAULT", "EMBEXPR"}
    /\ Byte(AtRest, parser'.current.start) = "$"

\* C31: a dollar sign before any decimal digit 0-9 takes the whole digit
\* run and gives NTH_REFERENCE; before one of the listed special bytes it
\* gives GLOBAL_VARIABLE or BACK_REFERENCE; before an identifier character
\* it takes the identifier run and gives GLOBAL_VARIABLE; before anything
\* else it gives INVALID.
C31_GlobalVariables ==
    [][LexedDollar =>
          LET start == parser'.current.start
              c == Byte(AtRest, start + 1)
          IN  parser'.current =
                CASE c \in Digits09 ->
                        Token("NTH_REFERENCE", start,
                              start + 1 + RunLength(start + 1, Digits09))
                  [] c \in {"~", "*", "$", "?", "!", "@", "/", "\\", ";", ",",
                            ".", "=", ":", "<", ">", "\""} ->
                        Token("GLOBAL_VARIABLE", start, start + 2)
                  [] c \in {"&", BACKTICK, "'", "+"} ->
                        Token("BACK_REFERENCE", start, start + 2)
                  [] c \in IdentifierChars \ Digits09 ->
                        Token("GLOBAL_VARIABLE", start,
                              start + 1 + RunLength(start + 1, IdentifierChars))
                  [] OTHER -> Token("INVALID", start, start + 1)]_vars

\* This step is a call that ran the default dispatcher and switched on an
\* equals sign that begin and a newline follow: the token it returns
\* starts there.
LexedEqualsBegin ==
    /\ pc' = "lexed"
    /\ seen'.mode \in {"DEFAULT", "EMBEXPR"}
    /\ StartsWith(parser'.current.start, <<"=", "b", "e", "g", "i", "n", "\n">>)

\* C32: =begin and a newline open an embdoc (the embdoc mode is pushed and
\* EMBDOC_BEGIN emitted) exactly when the = is at a line start: the byte
\* before it is a newline, or it is at offset 0 of the buffer; at offset 0
\* the opener is accepted without a read of the byte before the buffer.
C32_EmbDocAtLineStart ==
    [][LexedEqualsBegin =>
          LET start == parser'.current.start IN
          /\ IF start = 0 \/ source[start] = "\n"
             THEN /\ parser'.current = Token("EMBDOC_BEGIN", start, start + 7)
                  /\ parser'.lex_modes.index = parser.lex_modes.index + 1
                  /\ Top(parser').mode = "EMBDOC"
             ELSE /\ parser'.current.type # "EMBDOC_BEGIN"
                  /\ parser'.lex_modes = parser.lex_modes
          /\ start = 0 => \A i \in seen'.reads : i >= 0]_vars

\* C33: after a valid numeric prefix the suffixes r and i compose in
\* either order: a number followed by ri, and a number followed by ir, is
\* consumed whole as one numeric token.
C33_SuffixesCompose ==
    Len(tokens) >= 1 =>
        \A n \in Numbers :
            source \in {n \o <<"r", "i">>, n \o <<"i", "r">>} =>
                /\ tokens[1].type \in {"RATIONAL_NUMBER", "IMAGINARY_NUMBER"}
                /\ tokens[1].start = 0
                /\ tokens[1].end = Size

\* the offset just after the identifier run of the token this step returns
RunEnd == parser'.current.start + RunLength(parser'.current.start, IdentifierChars)

\* This step is a call that scanned an identifier that lies in the buffer
\* and has a ! or a ? after it, no = after that, and no colon of a label.
ScannedSuffixed ==
    /\ pc' = "lexed"
    /\ seen'.mode \in {"DEFAULT", "EMBEXPR", "SYMBOL"}
    /\ is_identifier_start_char(Byte(AtRest, parser'.current.start))
    /\ RunEnd < Size
    /\ Byte(AtRest, RunEnd) \in {"!", "?"}
    /\ Byte(AtRest, RunEnd + 1) \notin {"=", ":"}

\* C34: the identifier scanner takes a ! or ? that follows the identifier
\* whenever the byte after it is not =, wherever the identifier lies, also
\* when the ! or ? is the last byte of the buffer; with the suffix taken
\* the type is KEYWORD_DEFINED for defined? when the token before is not a
\* DOT, and IDENTIFIER otherwise.
C34_PredicateSuffix ==
    [][ScannedSuffixed =>
          LET start == parser'.current.start
              defined == <<"d", "e", "f", "i", "n", "e", "d", "?">>
          IN  parser'.current =
                Token(IF StartsWith(start, defined) /\ RunEnd + 1 = start + 8
                         /\ parser.current.type # "DOT"
                      THEN "KEYWORD_DEFINED" ELSE "IDENTIFIER",
                      start, RunEnd + 1)]_vars

\* no call before the last one has returned EOF
UpToFirstEOF == \A k \in 1..(Len(tokens) - 1) : tokens[k].type # "EOF"

\* C35: with the NUL sentinel at buf[N], every byte the lexer reads in any
\* sequence of yp_lex_token calls up to and including the first EOF lies
\* at an offset in [0, N]: nothing is read before the buffer or beyond the
\* sentinel.
C35_ReadsWithinBuffer ==
    (pc = "lexed" /\ Len(tokens) < MaxTokens /\ UpToFirstEOF) =>
        \A i \in seen.reads : 0 <= i /\ i <= Size

\* the tokens returned since the interpolation that was opened last
SinceEmbExprBegin ==
    LET begins == {k \in 1..Len(tokens) : tokens[k].type = "EMBEXPR_BEGIN"}
        last == CHOOSE k \in begins : \A j \in begins : j <= k
    IN  IF begins = {} THEN {} ELSE (last + 1)..Len(tokens)

\* the braces opened and not yet closed inside that interpolation
OpenBraces ==
    Cardinality({k \in SinceEmbExprBegin :
                    tokens[k].type \in {"BRACE_LEFT", "LAMBDA_BEGIN"}})
        - Cardinality({k \in SinceEmbExprBegin : tokens[k].type = "BRACE_RIGHT"})

\* C36: braces nest inside an interpolation: while the top mode is embexpr
\* a closing brace that closes a brace opened inside the same embedded
\* expression is a BRACE_RIGHT and leaves the mode stack alone, and only
\* the closing brace that matches the #{ is an EMBEXPR_END with the pop to
\* the enclosing literal.
C36_BracesNest ==
    [][(/\ LexedBrace("EMBEXPR")
        /\ Len(tokens) < MaxTokens
        /\ \A k \in SinceEmbExprBegin : tokens[k].type # "EMBEXPR_END") =>
          IF OpenBraces > 0
          THEN /\ parser'.current.type = "BRACE_RIGHT"
               /\ parser'.lex_modes = parser.lex_modes
          ELSE /\ parser'.current.type = "EMBEXPR_END"
               /\ parser'.lex_modes.index = parser.lex_modes.index - 1]_vars

\* the nodes malloc has handed out and free has not taken back
LiveNodes == {k \in 1..Len(parser.heap) : parser.heap[k].live}

\* C37: in every reachable state the number of live heap-allocated mode
\* nodes is max(0, index - 3): a node is allocated exactly when a push
\* takes the index above YP_LEX_STACK_SIZE - 1 and freed exactly when a pop
\* starts with index >= YP_LEX_STACK_SIZE; no node is freed twice and no
\* inline slot (nor any other pointer malloc did not return) is passed to
\* free.
C37_LiveNodesMatchIndex ==
    /\ Cardinality(LiveNodes) =
          IF parser.lex_modes.index > YP_LEX_STACK_SIZE - 1
          THEN parser.lex_modes.index - (YP_LEX_STACK_SIZE - 1) ELSE 0
    /\ ~seen.corrupt

====
